---------------------------- MODULE Spec2Model ----------------------------
(***************************************************************************)
(* pyznap.ssh: the SSH class (src/pyznap/ssh.py).  A Session owns one      *)
(* multiplexed control connection, identified by a socket path, builds     *)
(* the base command vector and the compression-augmented command vector,   *)
(* and closes the connection with 'ssh -O exit'.                           *)
(*                                                                         *)
(* Strings are TLA+ strings, command vectors are sequences of strings.     *)
(* The ssh program, the file system, the clock and utils.exists are the    *)
(* environment: their outcomes are chosen nondeterministically.            *)
(*                                                                         *)
(* Three specifications share the actions:                                 *)
(*   Spec      one object, every operation and every compression request;  *)
(*   SpecPair  two objects of one process run, without compression;        *)
(*   SpecPath  the socket path format alone, on pairs of inputs.           *)
(***************************************************************************)
EXTENDS Integers, Sequences, FiniteSets, TLC

(***************************************************************************)
(* Bounds of the model.                                                    *)
(***************************************************************************)
MaxClock == 1        \* seconds the clock can advance
MaxCloses == 2       \* explicit close() calls on one object
MaxSetups == 1       \* setup_compress() calls on one object after __init__

\* The SSH objects created in one process run, numbered in order of creation.
Sessions == {1, 2}

(***************************************************************************)
(* Inputs of SSH.__init__.                                                 *)
(***************************************************************************)
NoneVal == "None"
Users == {"alice"}
Host == "backup.example"
Hosts == {Host, "mirror.example"}
Ports == {22}
DefaultKey == "~/.ssh/id_rsa"
ValidKey == "/tmp/validkey"
Keys == {NoneVal, ValidKey, "/tmp/nokey"}
algos == <<"gzip", "lzop", "bzip2", "pigz", "xz">>
compress_cmd ==
    [gzip |-> "gzip", lzop |-> "lzop", bzip2 |-> "bzip2", pigz |-> "pigz", xz |-> "xz"]
decompress_cmd ==
    [gzip |-> "gzip -d", lzop |-> "lzop -d", bzip2 |-> "bzip2 -d", pigz |-> "pigz -d",
     xz |-> "xz -d"]
CompressRequests == {NoneVal, "gzip", "lzop", "bzip2", "pigz", "xz", "zzz"}
\* The requests of the later setup_compress() calls on a constructed object.
RepeatRequests == {NoneVal, "gzip", "xz", "zzz"}

VARIABLES
    st,         \* st[s]: "new" (not created), "ready" (__init__ returned),
                \*        "failed" (__init__ raised), "gone" (__del__ has run)
    ssh,        \* ssh[s]: the attributes of the object
    err,        \* err[s]: the exception __init__ raised, or "none"
    calls,      \* calls[s]: the subprocess invocations the object issued, in order
    closes,     \* closes[s]: how often close() was entered, how often by the caller,
                \*            and how the last '-O exit' invocation ended
    raised,     \* raised[s]: what the last close() raised, or "none"
    closeRun,   \* the current run of consecutive close() calls on one object
    masters,    \* the control sockets with a live master behind them
    clock,      \* datetime.now(), in seconds
    files,      \* the regular files of the file system
    transport,  \* whether the ssh executable can be run
    paths       \* two inputs of the socket path format, and the paths it gave them

vars == <<st, ssh, err, calls, closes, raised, closeRun, masters, clock, files, transport,
          paths>>

(***************************************************************************)
(* Pure parts of the code.                                                 *)
(***************************************************************************)
TwoDigits(n) == ToString(n \div 10) \o ToString(n % 10)

\* datetime.now().strftime('%Y-%m-%d_%H:%M:%S'): fixed width, one value per second.
\* The clock counts seconds from 2019-01-01 00:00:00.
Strftime(now) ==
    "2019-01-01_00:" \o TwoDigits((now \div 60) % 60) \o ":" \o TwoDigits(now % 60)

\* Faulty variant: the port is left out of the socket path.
SocketPath_NoPort(user, host, port, now) ==
    "/tmp/pyznap_" \o user \o "@" \o host \o "_" \o Strftime(now)

\* '/tmp/pyznap_{:s}@{:s}:{:d}_{:s}'.format(user, host, port, strftime)
SocketPath(user, host, port, now) ==
    "/tmp/pyznap_" \o user \o "@" \o host \o ":" \o ToString(port) \o "_" \o Strftime(now)

\* key or os.path.expanduser('~/.ssh/id_rsa')
ResolveKey(key) == IF key \in {NoneVal, ""} THEN DefaultKey ELSE key

\* Faulty variant: the key file is not checked.
IsFile_Unchecked(path, fs) == TRUE

\* os.path.isfile(self.key)
IsFile(path, fs) == path \in fs

\* self.cmd
BaseCmd(key, socket, port, user, host) ==
    <<"ssh", "-i", key, "-o", "ControlMaster=auto", "-o", "ControlPersist=1m",
      "-o", "ControlPath=" \o socket, "-p", ToString(port), user \o "@" \o host>>

InList(x, list) == \E i \in 1..Len(list) : list[i] = x

\* The tokens close() appends to self.cmd.
ExitArgs == <<"-O", "exit">>

\* The tokens of the liveness probe.
ProbeArgs == <<"ls">>

\* utils.exists(name, ssh): the existence check run through self.cmd; it returns a
\* boolean and raises nothing.
ExistsArgs(name) == <<"command", "-v", name>>
ExistsResults == BOOLEAN

\* Faulty variant: the result of the remote probe is not looked at.
SetupCompress_RemoteIgnored(cmd, type, local, remote) ==
    IF type = NoneVal \/ ~InList(type, algos)
    THEN [compression |-> NoneVal, cmd_compress |-> cmd, probes |-> <<>>]
    ELSE IF ~local
    THEN [compression |-> NoneVal, cmd_compress |-> cmd,
          probes |-> <<[on |-> "local", name |-> type, found |-> FALSE]>>]
    ELSE [compression |-> type,
          cmd_compress |-> <<compress_cmd[type], "|">> \o cmd \o <<decompress_cmd[type], "|">>,
          probes |-> <<[on |-> "local", name |-> type, found |-> TRUE],
                       [on |-> "remote", name |-> type, found |-> remote]>>]

\* Faulty variant: the result of the local probe is not looked at.
SetupCompress_LocalIgnored(cmd, type, local, remote) ==
    IF type = NoneVal \/ ~InList(type, algos)
    THEN [compression |-> NoneVal, cmd_compress |-> cmd, probes |-> <<>>]
    ELSE IF ~remote
    THEN [compression |-> NoneVal, cmd_compress |-> cmd,
          probes |-> <<[on |-> "local", name |-> type, found |-> local],
                       [on |-> "remote", name |-> type, found |-> FALSE]>>]
    ELSE [compression |-> type,
          cmd_compress |-> <<compress_cmd[type], "|">> \o cmd \o <<decompress_cmd[type], "|">>,
          probes |-> <<[on |-> "local", name |-> type, found |-> local],
                       [on |-> "remote", name |-> type, found |-> TRUE]>>]

\* Faulty variant: the compression fragments take the place of self.cmd.
SetupCompress_Replaces(cmd, type, local, remote) ==
    IF type = NoneVal \/ ~InList(type, algos)
    THEN [compression |-> NoneVal, cmd_compress |-> cmd, probes |-> <<>>]
    ELSE IF ~local
    THEN [compression |-> NoneVal, cmd_compress |-> cmd,
          probes |-> <<[on |-> "local", name |-> type, found |-> FALSE]>>]
    ELSE IF ~remote
    THEN [compression |-> NoneVal, cmd_compress |-> cmd,
          probes |-> <<[on |-> "local", name |-> type, found |-> TRUE],
                       [on |-> "remote", name |-> type, found |-> FALSE]>>]
    ELSE [compression |-> type,
          cmd_compress |-> <<compress_cmd[type], "|", decompress_cmd[type], "|">>,
          probes |-> <<[on |-> "local", name |-> type, found |-> TRUE],
                       [on |-> "remote", name |-> type, found |-> TRUE]>>]

\* Faulty variant: the remote probe runs first, the local one after it.
SetupCompress_RemoteFirst(cmd, type, local, remote) ==
    IF type = NoneVal \/ ~InList(type, algos)
    THEN [compression |-> NoneVal, cmd_compress |-> cmd, probes |-> <<>>]
    ELSE IF ~remote
    THEN [compression |-> NoneVal, cmd_compress |-> cmd,
          probes |-> <<[on |-> "remote", name |-> type, found |-> FALSE]>>]
    ELSE IF ~local
    THEN [compression |-> NoneVal, cmd_compress |-> cmd,
          probes |-> <<[on |-> "remote", name |-> type, found |-> TRUE],
                       [on |-> "local", name |-> type, found |-> FALSE]>>]
    ELSE [compression |-> type,
          cmd_compress |-> <<compress_cmd[type], "|">> \o cmd \o <<decompress_cmd[type], "|">>,
          probes |-> <<[on |-> "remote", name |-> type, found |-> TRUE],
                       [on |-> "local", name |-> type, found |-> TRUE]>>]

\* setup_compress(_type), given what exists(_type) and exists(_type, ssh=self) return.
\* probes lists the availability probes it ran, in order.
SetupCompress(cmd, type, local, remote) ==
    IF type = NoneVal
    THEN [compression |-> NoneVal, cmd_compress |-> cmd, probes |-> <<>>]
    ELSE IF ~InList(type, algos)
    THEN [compression |-> NoneVal, cmd_compress |-> cmd, probes |-> <<>>]
    ELSE IF ~local
    THEN [compression |-> NoneVal, cmd_compress |-> cmd,
          probes |-> <<[on |-> "local", name |-> type, found |-> FALSE]>>]
    ELSE IF ~remote
    THEN [compression |-> NoneVal, cmd_compress |-> cmd,
          probes |-> <<[on |-> "local", name |-> type, found |-> TRUE],
                       [on |-> "remote", name |-> type, found |-> FALSE]>>]
    ELSE [compression |-> type,
          cmd_compress |-> <<compress_cmd[type], "|">> \o cmd \o <<decompress_cmd[type], "|">>,
          probes |-> <<[on |-> "local", name |-> type, found |-> TRUE],
                       [on |-> "remote", name |-> type, found |-> TRUE]>>]

(***************************************************************************)
(* The ssh program, as the options of self.cmd make it behave.             *)
(***************************************************************************)
\* What running self.cmd + args can end in: exit 0, CalledProcessError,
\* TimeoutExpired, or the executable cannot be run at all (FileNotFoundError).
RunOutcomes(present) == IF present THEN {"ok", "nonzero", "timeout"} ELSE {"oserror"}

\* ControlMaster=auto, ControlPersist: an invocation that connects leaves a master
\* listening on ControlPath, or uses the one that is there.
AfterInvoke(m, socket, connected) == IF connected THEN m \cup {socket} ELSE m

\* '-O exit': the master behind ControlPath exits and the socket file is deleted.
AfterExit(m, socket, outcome) == IF outcome = "ok" THEN m \ {socket} ELSE m

\* '-O exit' can only succeed while a master listens on the socket.
ExitOutcomes(m, socket, present) ==
    IF socket \in m THEN RunOutcomes(present) ELSE RunOutcomes(present) \ {"ok"}

\* The exceptions close() lets through: it catches CalledProcessError and
\* TimeoutExpired only, and it reads self.cmd.
CloseRaises(has_cmd, outcome) ==
    IF ~has_cmd THEN "AttributeError"
    ELSE IF outcome = "oserror" THEN "FileNotFoundError"
    ELSE "none"

Call(argv, timeout) == [argv |-> argv, timeout |-> timeout]

NoObject ==
    [user |-> "", host |-> "", port |-> 0, socket |-> "", key |-> "",
     has_cmd |-> FALSE, cmd |-> <<>>,
     has_compress |-> FALSE, compression |-> NoneVal, cmd_compress |-> <<>>,
     liveness |-> "none", request |-> NoneVal, probes |-> <<>>, before |-> NoneVal,
     established |-> FALSE, setups |-> 0]

NoRun == [s |-> 0, calls |-> 0, removed |-> 0, start |-> {}]

(***************************************************************************)
(* Initial state: no object exists, no master runs.                        *)
(***************************************************************************)
InitObjects ==
    /\ st = [s \in Sessions |-> "new"]
    /\ ssh = [s \in Sessions |-> NoObject]
    /\ err = [s \in Sessions |-> "none"]
    /\ calls = [s \in Sessions |-> <<>>]
    /\ closes = [s \in Sessions |-> [total |-> 0, explicit |-> 0, last |-> "none"]]
    /\ raised = [s \in Sessions |-> "none"]
    /\ closeRun = NoRun
    /\ masters = {}
    /\ clock = 0
    /\ files \in {{ValidKey}, {ValidKey, DefaultKey}}
    /\ transport \in BOOLEAN

Init == InitObjects /\ paths = <<>>

(***************************************************************************)
(* close(), as a step inside an action: the state after it, given the      *)
(* outcome of the '-O exit' invocation.                                    *)
(***************************************************************************)
\* Faulty variant: close() issues no invocation.
CloseCalls_NoInvocation(o, c) == c

\* Faulty variant: close() leaves the '-O' out.
CloseCalls_NoControlFlag(o, c) ==
    IF o.has_cmd THEN Append(c, Call(o.cmd \o <<"exit">>, 5)) ELSE c

CloseCalls(o, c) ==
    IF o.has_cmd THEN Append(c, Call(o.cmd \o ExitArgs, 5)) ELSE c

\* Faulty variant: close() runs self.cmd without '-O', which brings a master up.
CloseMasters_Reconnects(o, m, outcome) == IF o.has_cmd THEN m \cup {o.socket} ELSE m

\* Faulty variant: the directive close() sends leaves the master running.
CloseMasters_KeepsMaster(o, m, outcome) == m

CloseMasters(o, m, outcome) ==
    IF o.has_cmd THEN AfterExit(m, o.socket, outcome) ELSE m

(***************************************************************************)
(* SSH.__init__(user, host, key, port, compress)                           *)
(***************************************************************************)
Construct(s, user, host, key, port, compress) ==
    /\ st[s] = "new"
    /\ \A t \in Sessions : t < s => st[t] # "new"
    /\ LET socket == SocketPath(user, host, port, clock)
           k == ResolveKey(key)
           o0 == [NoObject EXCEPT !.user = user, !.host = host, !.port = port,
                                  !.socket = socket, !.key = k]
           cmd == BaseCmd(k, socket, port, user, host)
           o1 == [o0 EXCEPT !.has_cmd = TRUE, !.cmd = cmd]
       IN  IF ~IsFile(k, files)
           THEN /\ ssh' = [ssh EXCEPT ![s] = o0]
                /\ st' = [st EXCEPT ![s] = "failed"]
                /\ err' = [err EXCEPT ![s] = "FileNotFoundError"]
                /\ UNCHANGED <<calls, closes, raised, masters>>
           ELSE \E probe \in RunOutcomes(transport), connected \in BOOLEAN :
                /\ probe = "ok" => connected
                /\ probe = "oserror" => ~connected
                /\ LET m1 == AfterInvoke(masters, socket, connected)
                       c1 == Append(calls[s], Call(cmd \o ProbeArgs, 10))
                       o2 == [o1 EXCEPT !.established = connected, !.liveness = probe]
                   IN  CASE probe = "ok" ->
                              \E local \in ExistsResults, remote \in ExistsResults :
                                LET r == SetupCompress(cmd, compress, local, remote)
                                    ran == Len(r.probes) = 2
                                IN  /\ ssh' = [ssh EXCEPT ![s] =
                                           [o2 EXCEPT !.has_compress = TRUE,
                                                      !.request = compress,
                                                      !.compression = r.compression,
                                                      !.cmd_compress = r.cmd_compress,
                                                      !.probes = r.probes]]
                                    /\ calls' = [calls EXCEPT ![s] =
                                           IF ran
                                           THEN Append(c1, Call(cmd \o ExistsArgs(compress), 10))
                                           ELSE c1]
                                    /\ masters' = m1
                                    /\ st' = [st EXCEPT ![s] = "ready"]
                                    /\ UNCHANGED <<err, closes, raised>>
                          [] probe \in {"nonzero", "timeout"} ->
                              \E exit \in ExitOutcomes(m1, socket, transport) :
                                /\ ssh' = [ssh EXCEPT ![s] = o2]
                                /\ calls' = [calls EXCEPT ![s] = CloseCalls(o2, c1)]
                                /\ masters' = CloseMasters(o2, m1, exit)
                                /\ closes' = [closes EXCEPT ![s].total = @ + 1,
                                                            ![s].last = exit]
                                /\ raised' = [raised EXCEPT ![s] = CloseRaises(TRUE, exit)]
                                /\ st' = [st EXCEPT ![s] = "failed"]
                                /\ err' = [err EXCEPT ![s] =
                                       IF CloseRaises(TRUE, exit) = "none"
                                       THEN "SSHException" ELSE CloseRaises(TRUE, exit)]
                          [] probe = "oserror" ->
                              /\ ssh' = [ssh EXCEPT ![s] = o2]
                              /\ calls' = [calls EXCEPT ![s] = c1]
                              /\ masters' = m1
                              /\ st' = [st EXCEPT ![s] = "failed"]
                              /\ err' = [err EXCEPT ![s] = "FileNotFoundError"]
                              /\ UNCHANGED <<closes, raised>>
    /\ closeRun' = NoRun
    /\ UNCHANGED <<clock, files, transport, paths>>

(***************************************************************************)
(* setup_compress(_type), called again by the owner of a constructed       *)
(* object.  The remote probe runs self.cmd, so it can bring a master up.   *)
(***************************************************************************)
\* Faulty variant: a negotiation that ends without compression leaves compression
\* and cmd_compress as the call before set them.
SetupCompressCall_NoReset(s, type) ==
    /\ st[s] = "ready"
    /\ ssh[s].setups < MaxSetups
    /\ \E local \in ExistsResults, remote \in ExistsResults, connected \in BOOLEAN :
         LET o == ssh[s]
             r == SetupCompress(o.cmd, type, local, remote)
             ran == Len(r.probes) = 2
         IN  /\ remote => connected
             /\ ~ran => ~connected
             /\ ssh' = [ssh EXCEPT ![s] =
                    [o EXCEPT !.has_compress = TRUE,
                              !.request = type,
                              !.before = o.compression,
                              !.compression =
                                  IF r.compression = NoneVal THEN @ ELSE r.compression,
                              !.cmd_compress =
                                  IF r.compression = NoneVal THEN @ ELSE r.cmd_compress,
                              !.probes = r.probes,
                              !.established = @ \/ connected,
                              !.setups = @ + 1]]
             /\ calls' = [calls EXCEPT ![s] =
                    IF ran
                    THEN Append(@, Call(o.cmd \o ExistsArgs(type), 10))
                    ELSE @]
             /\ masters' = AfterInvoke(masters, o.socket, connected)
    /\ closeRun' = NoRun
    /\ UNCHANGED <<st, err, closes, raised, clock, files, transport, paths>>

SetupCompressCall(s, type) ==
    /\ st[s] = "ready"
    /\ ssh[s].setups < MaxSetups
    /\ \E local \in ExistsResults, remote \in ExistsResults, connected \in BOOLEAN :
         LET o == ssh[s]
             r == SetupCompress(o.cmd, type, local, remote)
             ran == Len(r.probes) = 2
         IN  /\ remote => connected
             /\ ~ran => ~connected
             /\ ssh' = [ssh EXCEPT ![s] =
                    [o EXCEPT !.has_compress = TRUE,
                              !.request = type,
                              !.before = o.compression,
                              !.compression = r.compression,
                              !.cmd_compress = r.cmd_compress,
                              !.probes = r.probes,
                              !.established = @ \/ connected,
                              !.setups = @ + 1]]
             /\ calls' = [calls EXCEPT ![s] =
                    IF ran
                    THEN Append(@, Call(o.cmd \o ExistsArgs(type), 10))
                    ELSE @]
             /\ masters' = AfterInvoke(masters, o.socket, connected)
    /\ closeRun' = NoRun
    /\ UNCHANGED <<st, err, closes, raised, clock, files, transport, paths>>

(***************************************************************************)
(* close(): one '-O exit' invocation through self.cmd, timeout 5;          *)
(* CalledProcessError and TimeoutExpired are swallowed.                    *)
(***************************************************************************)
CloseStep(s, exit, explicit) ==
    LET o == ssh[s]
        m1 == CloseMasters(o, masters, exit)
        gone == IF m1 # masters THEN 1 ELSE 0
    IN  /\ calls' = [calls EXCEPT ![s] = CloseCalls(o, @)]
        /\ masters' = m1
        /\ closes' = [closes EXCEPT ![s].total = @ + 1,
                                    ![s].explicit = @ + explicit,
                                    ![s].last = IF o.has_cmd THEN exit ELSE "notissued"]
        /\ raised' = [raised EXCEPT ![s] = CloseRaises(o.has_cmd, exit)]
        /\ closeRun' =
               IF closeRun.s = s
               THEN [closeRun EXCEPT !.calls = @ + 1, !.removed = @ + gone]
               ELSE [s |-> s, calls |-> 1, removed |-> gone, start |-> masters]

Close(s) ==
    /\ st[s] = "ready"
    /\ closes[s].explicit < MaxCloses
    /\ \E exit \in ExitOutcomes(masters, ssh[s].socket, transport) :
         CloseStep(s, exit, 1)
    /\ UNCHANGED <<st, ssh, err, clock, files, transport, paths>>

(***************************************************************************)
(* __del__(): the object is discarded, after __init__ returned or raised.  *)
(* It calls close(); what close() raises there is printed and dropped by   *)
(* the interpreter.                                                        *)
(***************************************************************************)
Discard(s) ==
    /\ st[s] \in {"ready", "failed"}
    /\ \E exit \in ExitOutcomes(masters, ssh[s].socket, transport) :
         CloseStep(s, exit, 0)
    /\ st' = [st EXCEPT ![s] = "gone"]
    /\ UNCHANGED <<ssh, err, clock, files, transport, paths>>

(***************************************************************************)
(* The environment: a master goes away on its own (ControlPersist=1m idle  *)
(* timeout, the network), and time passes.                                 *)
(***************************************************************************)
Drop(p) ==
    /\ p \in masters
    /\ masters' = masters \ {p}
    /\ closeRun' = NoRun
    /\ UNCHANGED <<st, ssh, err, calls, closes, raised, clock, files, transport, paths>>

Tick ==
    /\ clock < MaxClock
    /\ clock' = clock + 1
    /\ UNCHANGED <<st, ssh, err, calls, closes, raised, closeRun, masters, files, transport, paths>>

(***************************************************************************)
(* One object, with every operation on it and every compression request.   *)
(***************************************************************************)
Next ==
    \/ \E user \in Users, key \in Keys, port \in Ports, compress \in CompressRequests :
         Construct(1, user, Host, key, port, compress)
    \/ \E type \in RepeatRequests : SetupCompressCall(1, type)
    \/ Close(1)
    \/ Discard(1)
    \/ \E p \in masters : Drop(p)
    \/ Tick

Spec == Init /\ [][Next]_vars

(***************************************************************************)
(* Two objects in one process run, created, closed and discarded in any    *)
(* order, the ssh executable and the key file being there.                 *)
(***************************************************************************)
InitPair == Init /\ transport /\ files = {ValidKey}

NextPair ==
    \/ \E s \in Sessions, user \in Users, host \in Hosts, port \in Ports :
         Construct(s, user, host, ValidKey, port, NoneVal)
    \/ \E s \in Sessions : Close(s)
    \/ \E s \in Sessions : Discard(s)
    \/ \E p \in masters : Drop(p)
    \/ Tick

SpecPair == InitPair /\ [][NextPair]_vars

(***************************************************************************)
(* The socket path format on its own: two inputs, and the paths it gives   *)
(* them.  User names may hold any of the separators of the format; host    *)
(* names hold no '@' (ssh splits user@host at the last '@', so a host with *)
(* an '@' names another user at another host).                             *)
(***************************************************************************)
PathUsers == {"a", "a@b", "a:2", "b_1"}
PathHosts == {"b", "c", "b:2", "c_1"}
PathPorts == {2, 22}
PathTimes == (0..MaxClock) \cup {9, 10, 59, 60}
PathInputs == PathUsers \X PathHosts \X PathPorts \X PathTimes

InitPath ==
    /\ InitObjects
    /\ transport
    /\ files = {ValidKey}
    /\ paths \in {[a |-> x, b |-> y, out |-> <<>>] : x \in PathInputs, y \in PathInputs}

GeneratePaths ==
    /\ paths.out = <<>>
    /\ paths' = [paths EXCEPT !.out =
           <<SocketPath(paths.a[1], paths.a[2], paths.a[3], paths.a[4]),
             SocketPath(paths.b[1], paths.b[2], paths.b[3], paths.b[4])>>]
    /\ UNCHANGED <<st, ssh, err, calls, closes, raised, closeRun, masters, clock, files,
                   transport>>

NextPath == GeneratePaths

SpecPath == InitPath /\ [][NextPath]_vars

(***************************************************************************)
(* Properties.                                                             *)
(***************************************************************************)
Constructed(s) == st[s] # "new"
ProbeFailed(s) == ssh[s].liveness \in {"nonzero", "timeout"}
SupportedNames == {"gzip", "lzop", "bzip2", "pigz", "xz"}
Contains(whole, part) ==
    \E k \in 0..(Len(whole) - Len(part)) :
        \A i \in 1..Len(part) : whole[k + i] = part[i]

\* C1: an object whose resolved key path is no regular file failed with
\* FileNotFoundError, has issued no invocation at all (no liveness probe, no
\* capability probe, no '-O exit'), has no self.cmd and has brought no master up.
C1_MissingKeyFailsBeforeTransport ==
    \A s \in Sessions :
        (Constructed(s) /\ ssh[s].key \notin files) =>
            /\ err[s] = "FileNotFoundError"
            /\ calls[s] = <<>>
            /\ ssh[s].liveness = "none"
            /\ ~ssh[s].has_cmd
            /\ ~ssh[s].established
            /\ ssh[s].socket \notin masters

\* C1 witness: construction with no key given and no default key file has failed, and
\* the object has been discarded.
C1_Witness ==
    /\ st[1] = "gone"
    /\ ssh[1].key = DefaultKey
    /\ DefaultKey \notin files
    /\ err[1] = "FileNotFoundError"

\* C2 as claimed: after a liveness probe that exited non-zero or timed out,
\* construction failed with SSHException, close() has run, and no master listens on
\* the socket path.
C2_NoLiveSocketAfterProbeFailure ==
    \A s \in Sessions :
        (st[s] = "failed" /\ ProbeFailed(s)) =>
            /\ err[s] = "SSHException"
            /\ closes[s].total >= 1
            /\ ssh[s].socket \notin masters

\* C2 as amended: after a liveness probe that exited non-zero or timed out,
\* construction failed with SSHException and close() has run once, issuing
\* self.cmd + ['-O', 'exit'] right after the probe; a master still listens on the
\* socket path only if that '-O exit' invocation exited non-zero or timed out.
C2_ProbeFailureClosesBestEffort ==
    \A s \in Sessions :
        (st[s] = "failed" /\ ProbeFailed(s)) =>
            /\ err[s] = "SSHException"
            /\ closes[s].total = 1
            /\ Len(calls[s]) = 2
            /\ calls[s][2].argv = ssh[s].cmd \o <<"-O", "exit">>
            /\ (ssh[s].socket \in masters => closes[s].last \in {"nonzero", "timeout"})

\* C2 witness: the probe timed out with the master already up, and close() took it
\* down before the error surfaced.
C2_Witness ==
    /\ st[1] = "failed"
    /\ ssh[1].liveness = "timeout"
    /\ ssh[1].established
    /\ closes[1].last = "ok"
    /\ ssh[1].socket \notin masters

\* C3 as claimed: close() never raises, on any object and for any outcome of the
\* '-O exit' invocation.
C3_CloseNeverRaises == \A s \in Sessions : raised[s] = "none"

\* C4: in a run of consecutive close() calls on a successfully constructed object,
\* the socket is removed at most once, and the state after the run is one a single
\* close() gives from the state the run started in: nothing changed, or the master
\* that listened on the object's socket path gone.
C4_CloseIdempotent ==
    IF closeRun.s = 0 THEN TRUE
    ELSE LET s == closeRun.s
             socket == ssh[s].socket
         IN  err[s] = "none" =>
                /\ closeRun.removed <= 1
                /\ \/ masters = closeRun.start
                   \/ socket \in closeRun.start /\ masters = closeRun.start \ {socket}

\* C4 witness: two close() calls by the caller in a row, the first of which removed
\* the socket.
C4_Witness ==
    /\ closeRun.s = 1
    /\ closeRun.calls >= 2
    /\ closeRun.removed = 1
    /\ st[1] = "ready"
    /\ closes[1].explicit = 2
    /\ ssh[1].socket \notin masters

\* C5 as claimed: once an object is gone, close() has run for it and no master
\* listens on its socket path.
C5_NoLiveSocketOnceGone ==
    \A s \in Sessions :
        st[s] = "gone" => closes[s].total >= 1 /\ ssh[s].socket \notin masters

\* C5 as amended: once an object is gone, the finalizer has run close() once, on top
\* of the caller's close() calls and of the one a failed liveness probe makes, and a
\* master still listens on its socket path only if the finalizer's '-O exit' did not
\* succeed (non-zero exit, timeout, or not issued).
C5_FinalizerClosesBestEffort ==
    \A s \in Sessions :
        st[s] = "gone" =>
            /\ closes[s].total =
                   closes[s].explicit + 1 + (IF ProbeFailed(s) THEN 1 ELSE 0)
            /\ (ssh[s].socket \in masters => closes[s].last # "ok")

\* C5 witness: an object discarded without any close() by the caller, whose finalizer
\* took the master down.
C5_Witness ==
    /\ st[1] = "gone"
    /\ err[1] = "none"
    /\ ssh[1].established
    /\ closes[1].explicit = 0
    /\ closes[1].last = "ok"
    /\ ssh[1].socket \notin masters

\* C6 as claimed: two distinct objects that one process run has constructed, and not
\* yet discarded, have different socket paths.
C6_DistinctSocketPaths ==
    \A s \in Sessions, t \in Sessions :
        (s # t /\ st[s] = "ready" /\ st[t] = "ready") => ssh[s].socket # ssh[t].socket

\* C7: the socket path format is injective on (user, host, port, second): two inputs
\* that differ in the endpoint or in the second get different paths.
C7_SocketPathInjective ==
    Len(paths.out) = 2 => (paths.a # paths.b => paths.out[1] # paths.out[2])

\* C7 witness: paths generated for two endpoints whose user@host:port texts differ only
\* in where the separators fall.
C7_Witness ==
    /\ Len(paths.out) = 2
    /\ paths.a = <<"a", "b:2", 2, 0>>
    /\ paths.b = <<"a", "b", 22, 0>>

\* C8: after negotiation, compression is None or one of gzip, lzop, bzip2, pigz, xz,
\* and it is an algorithm only if the local and the remote probe of that negotiation
\* both ran for that algorithm and both returned true.
C8_CompressionOnlyIfProbed ==
    \A s \in Sessions :
        ssh[s].has_compress =>
            \/ ssh[s].compression = NoneVal
            \/ /\ ssh[s].compression \in SupportedNames
               /\ ssh[s].compression = ssh[s].request
               /\ ssh[s].probes =
                      <<[on |-> "local", name |-> ssh[s].compression, found |-> TRUE],
                        [on |-> "remote", name |-> ssh[s].compression, found |-> TRUE]>>

\* C8 witness: a negotiation that selected pigz.
C8_Witness ==
    /\ st[1] = "ready"
    /\ ssh[1].compression = "pigz"

\* C9: whenever the liveness probe succeeded, __init__ returned an object with
\* self.cmd, compression and cmd_compress set and raised nothing; and a negotiation
\* for an unsupported name, or one in which the local or the remote probe returned
\* false, leaves compression None and cmd_compress equal to self.cmd.
C9_CompressionFailureIsSoft ==
    \A s \in Sessions :
        /\ ssh[s].liveness = "ok" =>
               /\ st[s] \in {"ready", "gone"}
               /\ err[s] = "none"
               /\ ssh[s].has_cmd
               /\ ssh[s].has_compress
        /\ ( /\ ssh[s].has_compress
             /\ \/ ssh[s].request \notin SupportedNames
                \/ \E i \in 1..Len(ssh[s].probes) : ~ssh[s].probes[i].found )
           => ssh[s].compression = NoneVal /\ ssh[s].cmd_compress = ssh[s].cmd

\* C9 witness: __init__ returned for a supported algorithm that is there locally and
\* missing remotely.
C9_Witness ==
    /\ st[1] = "ready"
    /\ ssh[1].setups = 0
    /\ ssh[1].request = "lzop"
    /\ Len(ssh[1].probes) = 2
    /\ ssh[1].probes[1].found
    /\ ~ssh[1].probes[2].found
    /\ ssh[1].compression = NoneVal

\* C10: a negotiation for a supported algorithm a that both probes found gives
\* compression = a and cmd_compress = [a, '|'] + self.cmd + [a + ' -d', '|']; and
\* in every state cmd_compress holds self.cmd, unchanged, as a contiguous part.
C10_PipelineWrapsBaseCommand ==
    \A s \in Sessions :
        ssh[s].has_compress =>
            /\ ( /\ ssh[s].request \in SupportedNames
                 /\ Len(ssh[s].probes) = 2
                 /\ ssh[s].probes[1].found
                 /\ ssh[s].probes[2].found )
               => /\ ssh[s].compression = ssh[s].request
                  /\ ssh[s].cmd_compress =
                         <<ssh[s].request, "|">> \o ssh[s].cmd
                             \o <<ssh[s].request \o " -d", "|">>
            /\ Contains(ssh[s].cmd_compress, ssh[s].cmd)
            /\ Len(ssh[s].cmd) = 12

\* C10 witness: a negotiation that selected bzip2 and wrapped self.cmd.
C10_Witness ==
    /\ st[1] = "ready"
    /\ ssh[1].compression = "bzip2"
    /\ Len(ssh[1].cmd_compress) = Len(ssh[1].cmd) + 4

\* C11 as claimed: a construction that failed raised FileNotFoundError exactly when the
\* resolved key path is no regular file, and SSHException exactly when the liveness
\* probe was run and did not succeed; there is no other error.
C11_TwoErrorKinds ==
    \A s \in Sessions :
        Constructed(s) =>
            /\ err[s] \in {"none", "FileNotFoundError", "SSHException"}
            /\ (err[s] = "FileNotFoundError" <=> ssh[s].key \notin files)
            /\ (err[s] = "SSHException" <=> ssh[s].liveness \notin {"none", "ok"})

\* C12 as claimed: a step in which a constructed object runs close() (called by its
\* owner or by its finalizer) leaves the master of every other constructed object
\* listening.
C12_CloseLeavesOtherSessions ==
    [][\A s \in Sessions, t \in Sessions :
          ( /\ s # t
            /\ st[s] = "ready"
            /\ closes'[s].total > closes[s].total
            /\ st[t] = "ready"
            /\ ssh[t].socket \in masters )
          => ssh[t].socket \in masters']_vars

\* The invocations of calls[s] whose arguments are self.cmd followed by args.
Issued(s, args) == {i \in 1..Len(calls[s]) : calls[s][i].argv = ssh[s].cmd \o args}

\* C13: a negotiation runs no probe when no algorithm or an unsupported name is
\* requested; otherwise it probes locally first, for the requested name, and it probes
\* remotely, second, only if the local probe returned true.
C13_ProbeOrder ==
    \A s \in Sessions :
        ssh[s].has_compress =>
            LET p == ssh[s].probes
            IN  /\ Len(p) <= 2
                /\ ssh[s].request \notin SupportedNames => p = <<>>
                /\ ssh[s].request \in SupportedNames => Len(p) >= 1
                /\ Len(p) >= 1 => p[1].on = "local" /\ p[1].name = ssh[s].request
                /\ Len(p) = 1 => ~p[1].found
                /\ Len(p) = 2 =>
                       p[1].found /\ p[2].on = "remote" /\ p[2].name = ssh[s].request

\* C13 witness: a negotiation for xz that stopped after the local probe returned false.
C13_Witness ==
    /\ st[1] = "ready"
    /\ ssh[1].request = "xz"
    /\ Len(ssh[1].probes) = 1
    /\ ~ssh[1].probes[1].found

\* C14 as claimed: an object has issued the liveness probe at most once, at most one
\* remote capability probe for each negotiation, and one '-O exit' invocation for
\* each close() call.
C14_NoRetry ==
    \A s \in Sessions :
        Constructed(s) =>
            /\ Cardinality(Issued(s, <<"ls">>)) <= 1
            /\ Len(calls[s]) - Cardinality(Issued(s, <<"ls">>))
                   - Cardinality(Issued(s, <<"-O", "exit">>))
                 <= (IF ssh[s].has_compress THEN 1 + ssh[s].setups ELSE 0)
            /\ Cardinality(Issued(s, <<"-O", "exit">>)) = closes[s].total

\* C15: self.cmd is the transport invocation built from key, socket, port and
\* user@host; every invocation the object issued is self.cmd followed by the tokens
\* of the liveness probe (the first one), of '-O exit' or of a capability probe; so
\* no negotiation and no close() has changed self.cmd or the attributes it is built
\* from since the first invocation.
C15_BaseCommandFixed ==
    \A s \in Sessions :
        ssh[s].has_cmd =>
            /\ ssh[s].cmd =
                   <<"ssh", "-i", ssh[s].key, "-o", "ControlMaster=auto",
                     "-o", "ControlPersist=1m", "-o", "ControlPath=" \o ssh[s].socket,
                     "-p", ToString(ssh[s].port), ssh[s].user \o "@" \o ssh[s].host>>
            /\ Len(calls[s]) >= 1
            /\ calls[s][1].argv = ssh[s].cmd \o <<"ls">>
            /\ \A i \in 1..Len(calls[s]) :
                   LET argv == calls[s][i].argv
                   IN  /\ Len(argv) > 12
                       /\ SubSeq(argv, 1, 12) = ssh[s].cmd
                       /\ SubSeq(argv, 13, Len(argv)) \in
                              {<<"ls">>, <<"-O", "exit">>}
                                  \cup {<<"command", "-v", n>> : n \in SupportedNames}

\* C15 witness: an object that issued a liveness probe, a remote capability probe in
\* a later setup_compress call, and a '-O exit'.
C15_Witness ==
    /\ ssh[1].has_cmd
    /\ ssh[1].setups = 1
    /\ closes[1].total >= 1
    /\ Issued(1, <<"-O", "exit">>) # {}
    /\ \E n \in SupportedNames :
           /\ Issued(1, <<"command", "-v", n>>) # {}
           /\ calls[1][Len(calls[1]) - 1].argv = ssh[1].cmd \o <<"command", "-v", n>>

\* C16: whatever setup_compress calls came before, compression and cmd_compress are
\* what the last call alone gives: the requested name and the wrapped command if it
\* is supported and both probes found it, otherwise None and self.cmd; and
\* compression is None exactly when cmd_compress is self.cmd.
C16_LastCallDecides ==
    \A s \in Sessions :
        ssh[s].has_compress =>
            LET p == ssh[s].probes
                type == ssh[s].request
                ok == /\ type \in SupportedNames
                      /\ Len(p) = 2
                      /\ p[1].found
                      /\ p[2].found
            IN  /\ (ssh[s].compression = NoneVal) <=> (ssh[s].cmd_compress = ssh[s].cmd)
                /\ ssh[s].compression = (IF ok THEN type ELSE NoneVal)
                /\ ssh[s].cmd_compress =
                       (IF ok
                        THEN <<compress_cmd[type], "|">> \o ssh[s].cmd
                                 \o <<decompress_cmd[type], "|">>
                        ELSE ssh[s].cmd)

\* C16 witness: a setup_compress call that ended without compression on an object
\* whose earlier negotiation had enabled it.
C16_Witness ==
    /\ st[1] = "ready"
    /\ ssh[1].setups >= 1
    /\ ssh[1].before # NoneVal
    /\ ssh[1].compression = NoneVal
    /\ ssh[1].cmd_compress = ssh[1].cmd

=============================================================================
